---- MODULE Spec2Model ----
(***************************************************************************)
(* Model of src/ayay.js: main() commits and pushes every directory under   *)
(* packages/ concurrently (processSubmodule), then the root repository     *)
(* (processRepository), which first refreshes the registered submodules.   *)
(*                                                                         *)
(* Each awaited library call (git.status, git.diff, git.add, fetch, ...)   *)
(* is one step of the task that awaits it; a call either returns or        *)
(* throws, chosen by the environment.  The working trees change only       *)
(* through the program's own add and commit.                               *)
(***************************************************************************)
EXTENDS Integers, Sequences, FiniteSets, TLC

\* ------------------------------------------------------------- bounds
\* Longest text the generation service answers with.
MaxTextLen == 2
\* How many times the program is run in a row (SpecRerun).
MaxRuns == 2

\* ------------------------------------------------------------- names
Root == "root"
\* Names of nested repositories: "a", "b" live under packages/, "c" elsewhere.
Names == {"a", "b", "c"}
Tasks == Names \cup {Root}
None == "none"
\* A local `diff` and a local `commitMessage` that are not set.
NoDiff == {None}
NoMessage == << None >>

\* What the filesystem listing of packages/ and `git submodule status` show.
\* The two may disagree: here "a" is an unregistered directory and "c" is a
\* registered path outside packages/.
\* plain: the directories under packages/ that are no repository of their
\* own; git run in one of them works on the enclosing root repository.
Workspaces ==
    { [dirs |-> {"a", "b"}, reg |-> {"b", "c"}, plain |-> {}],
      [dirs |-> {},         reg |-> {},         plain |-> {}] }

RerunWorkspaces ==
    { [dirs |-> {"a"}, reg |-> {"a"}, plain |-> {}] }

\* A monorepo: packages/a and packages/b are plain directories of the root
\* repository, "c" is its one registered submodule.
PlainWorkspaces ==
    { [dirs |-> {"a", "b"}, reg |-> {"c"}, plain |-> {"a", "b"}] }

\* The files of the root repository that lie under each plain directory.
FilesUnder == [a |-> {"f"}, b |-> {"g"}, c |-> {}]

\* ------------------------------------------------------------- working trees
\* mod: tracked files with unstaged modifications, idx: staged changes,
\* unt: untracked files.
CleanTree == [mod |-> {}, idx |-> {}, unt |-> {}]

InitTrees ==
    { CleanTree,
      [mod |-> {"f"}, idx |-> {},    unt |-> {}],
      [mod |-> {},    idx |-> {"f"}, unt |-> {}],
      [mod |-> {},    idx |-> {},    unt |-> {"g"}],
      [mod |-> {"f"}, idx |-> {"g"}, unt |-> {}] }

\* status.isClean(): no staged, unstaged or untracked change
isClean(tr) == tr.mod = {} /\ tr.idx = {} /\ tr.unt = {}

\* git.diff() with no arguments: working tree against the index
diffOf(tr) == tr.mod

\* git.add('.'): stage every change, untracked files included
addAll(tr) == [mod |-> {}, idx |-> tr.idx \cup tr.mod \cup tr.unt, unt |-> {}]

\* git.add('.') run in a subdirectory: stage every change under it
addUnder(tr, S) ==
    [mod |-> tr.mod \ S, idx |-> tr.idx \cup ((tr.mod \cup tr.unt) \cap S),
     unt |-> tr.unt \ S]

commitTree_KeepsIndex(tr) == tr

\* git.commit(message): the index becomes the new HEAD
commitTree(tr) == [tr EXCEPT !.idx = {}]

\* ------------------------------------------------------------- messages
Chars == {" ", "x"}

RECURSIVE TextsOfLen(_)
TextsOfLen(n) ==
    IF n = 0 THEN {<<>>}
    ELSE {Append(s, c) : s \in TextsOfLen(n - 1), c \in Chars}

Texts == UNION {TextsOfLen(n) : n \in 0..MaxTextLen}

RECURSIVE TrimStart(_)
TrimStart(s) ==
    IF s # <<>> /\ Head(s) = " " THEN TrimStart(Tail(s)) ELSE s

RECURSIVE TrimEnd(_)
TrimEnd(s) ==
    IF s # <<>> /\ s[Len(s)] = " " THEN TrimEnd(SubSeq(s, 1, Len(s) - 1)) ELSE s

\* String.prototype.trim
Trim(s) == TrimEnd(TrimStart(s))

\* 'chore: update submodule changes'
FallbackMessage ==
    << "c","h","o","r","e",":"," ","u","p","d","a","t","e"," ",
       "s","u","b","m","o","d","u","l","e"," ","c","h","a","n","g","e","s" >>

\* What the generation service does with one request.
Responses ==
    { [kind |-> "networkError", text |-> <<>>],
      [kind |-> "non2xx",       text |-> <<>>],
      [kind |-> "badJson",      text |-> <<>>],
      [kind |-> "noContent",    text |-> <<>>] }
    \cup { [kind |-> "ok", text |-> s] : s \in Texts }

\* Whether the try block of generateCommitMessage throws on this response:
\* fetch rejects, response.ok is false, response.json() rejects, or
\* data.content[0].text is not there.
generationThrows(resp) ==
    \/ resp.kind = "networkError"
    \/ resp.kind = "non2xx"
    \/ resp.kind = "badJson"
    \/ resp.kind = "noContent"

generateCommitMessage_NoFallback(resp) == Trim(resp.text)

generateCommitMessage(resp) ==
    IF generationThrows(resp) THEN FallbackMessage ELSE Trim(resp.text)

\* ------------------------------------------------------------- exit codes
\* Normal completion of main().
ExitSuccess == 0
ExitFatal_AsSuccess == ExitSuccess
\* process.exit(1)
ExitFatal == 1

\* ------------------------------------------------------------- state
VARIABLES
    packagesExists, \* fs.existsSync(packagesDir)
    listingThrows,  \* whether readdirSync/statSync throw on packages/
    ws,             \* the directories under packages/ and the registered submodules
    tree,           \* working tree and index of every repository
    tree0,          \* the working trees as they were when the run started
    ahead,          \* local commits of every repository that are not on origin/main
    ahead0,         \* the unpushed commits as they were when the run started
    hang,           \* the one call of this run that never returns, if any
    mainPc,         \* position of main()
    exitCode,       \* exit code of the process, None while it runs
    submodules,     \* main's list of directories under packages/
    pc,             \* position of every per-repository task
    outcome,        \* how every per-repository task ended
    did,            \* version-control and generation calls every task has made
    calls,          \* how many times every task has made each call
    failedAt,       \* the call of a task that threw into its outer catch
    commits,        \* commits a task has created in this run
    diff,           \* local `diff` of a task
    commitMessage,  \* local `commitMessage` of a task
    genError,       \* whether generateCommitMessage took its catch branch
    requestDiff,    \* the diff a task put into its generation request
    submoduleList,  \* processRepository's list of registered submodule paths
    rpc,            \* position of every reference-refresh task
    rfail,          \* refresh tasks that logged a failure
    rdid,           \* calls every refresh task has made
    rok,            \* calls of every refresh task that returned
    run,            \* number of the current run of the program
    prev            \* how every task ended in the previous run

vars == << packagesExists, listingThrows, ws, tree, tree0, ahead, ahead0, hang,
           mainPc, exitCode, submodules, pc, outcome, did, calls, failedAt,
           commits, diff, commitMessage, genError, requestDiff,
           submoduleList, rpc, rfail, rdid, rok, run, prev >>

envVars == << packagesExists, listingThrows, ws, tree0, ahead0, hang, run, prev >>
mainVars == << mainPc, exitCode, submodules >>
refreshVars == << submoduleList, rpc, rfail, rdid, rok >>
localVars == << diff, commitMessage, genError, requestDiff >>

\* The calls a per-repository task makes.
Ops == {"submoduleStatus", "status", "diff", "summary", "add", "gen", "commit", "push"}

InitProgram ==
    /\ mainPc = "start"
    /\ exitCode = None
    /\ submodules = {}
    /\ pc = [t \in Tasks |-> "idle"]
    /\ outcome = [t \in Tasks |-> None]
    /\ did = [t \in Tasks |-> {}]
    /\ calls = [t \in Tasks |-> [o \in Ops |-> 0]]
    /\ failedAt = [t \in Tasks |-> None]
    /\ commits = [t \in Tasks |-> 0]
    /\ diff = [t \in Tasks |-> NoDiff]
    /\ commitMessage = [t \in Tasks |-> NoMessage]
    /\ genError = [t \in Tasks |-> FALSE]
    /\ requestDiff = [t \in Tasks |-> NoDiff]
    /\ submoduleList = {}
    /\ rpc = [p \in Names |-> "idle"]
    /\ rfail = {}
    /\ rdid = [p \in Names |-> {}]
    /\ rok = [p \in Names |-> {}]

InitWith(W) ==
    /\ packagesExists \in BOOLEAN
    /\ listingThrows \in BOOLEAN
    /\ packagesExists = FALSE => listingThrows = FALSE
    /\ ws \in W
    /\ tree \in [Tasks -> InitTrees]
    /\ \A t \in Tasks : t \notin (ws.dirs \ ws.plain) \cup {Root} => tree[t] = CleanTree
    /\ tree0 = tree
    /\ ahead = [t \in Tasks |-> 0]
    /\ ahead0 = ahead
    /\ run = 1
    /\ prev = [t \in Tasks |-> None]
    /\ InitProgram

\* Every call returns.
NoHang == [task |-> None, op |-> None]

\* Calls that may never return: of a nested task, of the generation service,
\* of a refresh task, of the root task.
HangPoints ==
    { [task |-> "a", op |-> "status"],
      [task |-> "b", op |-> "gen"],
      [task |-> "b", op |-> "push"],
      [task |-> "c", op |-> "pull"],
      [task |-> Root, op |-> "commit"] }

Init == hang = NoHang /\ InitWith(Workspaces)

InitRerun == hang = NoHang /\ InitWith(RerunWorkspaces)

InitPlain == hang = NoHang /\ InitWith(PlainWorkspaces)

\* The trees of the runs checked for progress: clean, or one modified file.
LiveTrees == { CleanTree, [mod |-> {"f"}, idx |-> {}, unt |-> {}] }

InitLive ==
    /\ hang = NoHang
    /\ InitWith(Workspaces)
    /\ \A t \in Tasks : tree[t] \in LiveTrees

InitHang ==
    /\ hang \in HangPoints
    /\ InitWith(Workspaces)
    /\ \A t \in Tasks : tree[t] \in LiveTrees

\* The repository a task's git instance works on: its baseDir, or the
\* enclosing root repository when baseDir is a plain directory.
repoOf(t) == IF t \in ws.plain THEN Root ELSE t

\* The call that never returns has been made and is pending.
HungPending ==
    \/ hang.task \in Tasks /\ pc[hang.task] = hang.op
    \/ hang.task \in Names /\ rpc[hang.task] = hang.op

Returns_Blocking(t, op) == ~HungPending

\* Whether the awaited call `op` of task t ever returns.  Every call is
\* awaited, so a pending call of one task holds up no other task.
Returns(t, op) == hang # [task |-> t, op |-> op]

\* The process is alive: no task runs on after process.exit or the end of main.
Running == mainPc # "exit"

\* ------------------------------------------------------------- error handling
catchesError_Rethrows(t) == FALSE

\* The outer try/catch of processSubmodule and of processRepository: every
\* exception of the body is logged and the function returns normally.
catchesError(t) == TRUE

\* A call of task t threw at `op`: its effect on pc, outcome and failedAt.
Throw(t, op) ==
    IF catchesError(t)
    THEN /\ pc' = [pc EXCEPT ![t] = "done"]
         /\ outcome' = [outcome EXCEPT ![t] = "failed"]
         /\ failedAt' = [failedAt EXCEPT ![t] = op]
    ELSE /\ pc' = [pc EXCEPT ![t] = "rejected"]
         /\ outcome' = [outcome EXCEPT ![t] = "failed"]
         /\ failedAt' = [failedAt EXCEPT ![t] = op]

\* The locals of a task are gone when its function returns.
DropLocals(t) ==
    /\ diff' = [diff EXCEPT ![t] = NoDiff]
    /\ commitMessage' = [commitMessage EXCEPT ![t] = NoMessage]
    /\ genError' = [genError EXCEPT ![t] = FALSE]
    /\ requestDiff' = [requestDiff EXCEPT ![t] = NoDiff]

Record(t, op) ==
    /\ did' = [did EXCEPT ![t] = @ \cup {op}]
    /\ calls' = [calls EXCEPT ![t][op] = @ + 1]

\* ------------------------------------------------------------- main()
\* fs.existsSync(packagesDir) is false: process.exit(1).
MainMissing ==
    /\ mainPc = "start"
    /\ ~packagesExists
    /\ mainPc' = "exit"
    /\ exitCode' = ExitFatal
    /\ UNCHANGED << envVars, tree, ahead, submodules, pc, outcome, did, calls, failedAt,
                    commits, localVars, refreshVars >>

\* readdirSync/statSync list the directories, then every processSubmodule is
\* called: each runs up to its first await, git.status().  A filesystem
\* error is caught by main's catch: process.exit(1).
MainLaunch ==
    /\ mainPc = "start"
    /\ packagesExists
    /\ IF ~listingThrows
        THEN /\ submodules' = ws.dirs
             /\ pc' = [t \in Tasks |-> IF t \in ws.dirs THEN "status" ELSE pc[t]]
             /\ mainPc' = "join"
             /\ exitCode' = exitCode
        ELSE /\ mainPc' = "exit"
             /\ exitCode' = ExitFatal
             /\ UNCHANGED << submodules, pc >>
    /\ UNCHANGED << envVars, tree, ahead, outcome, did, calls, failedAt, commits,
                    localVars, refreshVars >>

allSettled_NoAwait(S) == TRUE

\* Promise.all over tasks that never reject: resolved when every one returned.
allSettled(S) == \A t \in S : pc[t] = "done"

anyRejected(S) == \E t \in S : pc[t] = "rejected"

\* await Promise.all(submodules.map(processSubmodule)) resolves and
\* processRepository(rootDir, false) is called: it runs up to its first
\* await, git.raw(['submodule', 'status']).  A rejection goes to main's catch.
MainJoin ==
    /\ mainPc = "join"
    /\ allSettled(submodules) \/ anyRejected(submodules)
    /\ IF anyRejected(submodules)
       THEN /\ mainPc' = "exit"
            /\ exitCode' = ExitFatal
            /\ pc' = pc
       ELSE /\ mainPc' = "rootwait"
            /\ exitCode' = exitCode
            /\ pc' = [pc EXCEPT ![Root] = "submoduleStatus"]
    /\ UNCHANGED << envVars, tree, ahead, submodules, outcome, did, calls, failedAt,
                    commits, localVars, refreshVars >>

\* await processRepository(...) returns: the banner, and the process ends.
MainFinish ==
    /\ mainPc = "rootwait"
    /\ pc[Root] \in {"done", "rejected"}
    /\ mainPc' = "exit"
    /\ exitCode' = IF pc[Root] = "done" THEN ExitSuccess ELSE ExitFatal
    /\ UNCHANGED << envVars, tree, ahead, submodules, pc, outcome, did, calls, failedAt,
                    commits, localVars, refreshVars >>

\* ------------------------------------------------------------- one repository
afterStatus_NoReturn(clean) == "diff"

afterStatus_PushWhenClean(clean) == IF clean THEN "push" ELSE "diff"

\* if (status.isClean()) { ...; return }: where the task goes after status
afterStatus(clean) == IF clean THEN "done" ELSE "diff"

\* const status = await git.status(); if (status.isClean()) return
Status(t) ==
    /\ Running
    /\ pc[t] = "status"
    /\ Returns(t, "status")
    /\ Record(t, "status")
    /\ \E ok \in BOOLEAN :
        IF ~ok THEN Throw(t, "status")
        ELSE LET to == afterStatus(isClean(tree[repoOf(t)])) IN
             /\ pc' = [pc EXCEPT ![t] = to]
             /\ outcome' = [outcome EXCEPT ![t] = IF to = "done" THEN "skipped" ELSE @]
             /\ failedAt' = failedAt
    /\ UNCHANGED << envVars, mainVars, tree, ahead, commits, localVars, refreshVars >>

\* const diff = await git.diff()
Diff(t) ==
    /\ Running
    /\ pc[t] = "diff"
    /\ Returns(t, "diff")
    /\ Record(t, "diff")
    /\ \E ok \in BOOLEAN :
        IF ~ok THEN Throw(t, "diff") /\ diff' = diff
        ELSE /\ pc' = [pc EXCEPT ![t] = "summary"]
             /\ diff' = [diff EXCEPT ![t] = diffOf(tree[repoOf(t)])]
             /\ UNCHANGED << outcome, failedAt >>
    /\ UNCHANGED << envVars, mainVars, tree, ahead, commits, commitMessage,
                    genError, requestDiff, refreshVars >>

\* const summary = await git.diffSummary(): only logged
DiffSummary(t) ==
    /\ Running
    /\ pc[t] = "summary"
    /\ Returns(t, "summary")
    /\ Record(t, "summary")
    /\ \E ok \in BOOLEAN :
        IF ~ok THEN Throw(t, "summary") /\ DropLocals(t)
        ELSE /\ pc' = [pc EXCEPT ![t] = "add"]
             /\ UNCHANGED << outcome, failedAt, localVars >>
    /\ UNCHANGED << envVars, mainVars, tree, ahead, commits, refreshVars >>

\* The working tree after git.add('.') of task t.
staged(t) ==
    IF t \in ws.plain THEN addUnder(tree[Root], FilesUnder[t]) ELSE addAll(tree[t])

\* await git.add('.')
Add(t) ==
    /\ Running
    /\ pc[t] = "add"
    /\ Returns(t, "add")
    /\ Record(t, "add")
    /\ \E ok \in BOOLEAN :
        IF ~ok THEN Throw(t, "add") /\ DropLocals(t) /\ tree' = tree
        ELSE /\ pc' = [pc EXCEPT ![t] = "gen"]
             /\ tree' = [tree EXCEPT ![repoOf(t)] = staged(t)]
             /\ UNCHANGED << outcome, failedAt, localVars >>
    /\ UNCHANGED << envVars, mainVars, ahead, commits, refreshVars >>

diffArgument_Recomputed(t) == diffOf(tree[repoOf(t)])

\* generateCommitMessage(diff): the local captured by git.diff()
diffArgument(t) == diff[t]

\* const commitMessage = await generateCommitMessage(diff)
Generate(t) ==
    /\ Running
    /\ pc[t] = "gen"
    /\ Returns(t, "gen")
    /\ Record(t, "gen")
    /\ requestDiff' = [requestDiff EXCEPT ![t] = diffArgument(t)]
    /\ \E resp \in Responses :
        /\ commitMessage' = [commitMessage EXCEPT ![t] = generateCommitMessage(resp)]
        /\ genError' = [genError EXCEPT ![t] = generationThrows(resp)]
    /\ pc' = [pc EXCEPT ![t] = "commit"]
    /\ UNCHANGED << envVars, mainVars, tree, ahead, outcome, failedAt, commits,
                    diff, refreshVars >>

\* git refuses an empty message and an empty index; a hook may refuse anything.
commitMaySucceed(msg, tr) == msg # <<>> /\ tr.idx # {}

commitCatchRethrows_Swallows == FALSE

\* catch (commitError) { console.error(...); throw commitError }
commitCatchRethrows == TRUE

\* try { await git.commit(commitMessage) } catch (commitError) { ... }
Commit(t) ==
    /\ Running
    /\ pc[t] = "commit"
    /\ Returns(t, "commit")
    /\ Record(t, "commit")
    /\ \E ok \in BOOLEAN :
        /\ ok => commitMaySucceed(commitMessage[t], tree[repoOf(t)])
        /\ IF ok
           THEN /\ pc' = [pc EXCEPT ![t] = "push"]
                /\ tree' = [tree EXCEPT ![repoOf(t)] = commitTree(@)]
                /\ ahead' = [ahead EXCEPT ![repoOf(t)] = @ + 1]
                /\ commits' = [commits EXCEPT ![t] = @ + 1]
                /\ UNCHANGED << outcome, failedAt, localVars >>
           ELSE IF commitCatchRethrows
           THEN /\ Throw(t, "commit")
                /\ DropLocals(t)
                /\ UNCHANGED << tree, ahead, commits >>
           ELSE /\ pc' = [pc EXCEPT ![t] = "push"]
                /\ UNCHANGED << tree, ahead, commits, outcome, failedAt, localVars >>
    /\ UNCHANGED << envVars, mainVars, refreshVars >>

pushRetried_Once == TRUE

\* Whether a failed git.push is tried again: the call is awaited once, and
\* its rejection goes straight to the outer catch.
pushRetried == FALSE

\* await git.push('origin', 'main')
Push(t) ==
    /\ Running
    /\ pc[t] = "push"
    /\ Returns(t, "push")
    /\ Record(t, "push")
    /\ \E ok \in BOOLEAN :
        IF ok
        THEN /\ pc' = [pc EXCEPT ![t] = "done"]
             /\ outcome' = [outcome EXCEPT ![t] = "succeeded"]
             /\ ahead' = [ahead EXCEPT ![repoOf(t)] = 0]
             /\ failedAt' = failedAt
             /\ DropLocals(t)
        ELSE IF pushRetried /\ calls[t]["push"] = 0
        THEN UNCHANGED << pc, outcome, failedAt, ahead, localVars >>
        ELSE Throw(t, "push") /\ ahead' = ahead /\ DropLocals(t)
    /\ UNCHANGED << envVars, mainVars, tree, commits, refreshVars >>

\* ------------------------------------------------------------- reference refresh
\* const submoduleResult = await git.raw(['submodule', 'status']), inside the
\* outer try of processRepository; then one refresh task per listed path,
\* each running up to its first await, checkout('main').
SubmoduleStatus ==
    /\ Running
    /\ pc[Root] = "submoduleStatus"
    /\ Returns(Root, "submoduleStatus")
    /\ Record(Root, "submoduleStatus")
    /\ \E ok \in BOOLEAN :
        IF ~ok THEN Throw(Root, "submoduleStatus") /\ UNCHANGED refreshVars
        ELSE /\ submoduleList' = ws.reg
             /\ rpc' = [p \in Names |-> IF p \in ws.reg THEN "checkout" ELSE rpc[p]]
             /\ UNCHANGED << rfail, rdid, rok >>
             /\ pc' = [pc EXCEPT ![Root] = IF ws.reg = {} THEN "status" ELSE "refresh"]
             /\ UNCHANGED << outcome, failedAt >>
    /\ UNCHANGED << envVars, mainVars, tree, ahead, commits, localVars >>

afterCheckout_PullAnyway(ok) == "pull"

\* await checkout('main') throws into the task's catch, which skips the pull
afterCheckout(ok) == IF ok THEN "pull" ELSE "done"

\* await submoduleGit.checkout('main'); a failure is logged by the task's catch
Checkout(p) ==
    /\ Running
    /\ rpc[p] = "checkout"
    /\ Returns(p, "checkout")
    /\ rdid' = [rdid EXCEPT ![p] = @ \cup {"checkout"}]
    /\ \E ok \in BOOLEAN :
        /\ rpc' = [rpc EXCEPT ![p] = afterCheckout(ok)]
        /\ rfail' = IF ok THEN rfail ELSE rfail \cup {p}
        /\ rok' = IF ok THEN [rok EXCEPT ![p] = @ \cup {"checkout"}] ELSE rok
    /\ UNCHANGED << envVars, mainVars, tree, ahead, pc, outcome, did, calls, failedAt,
                    commits, localVars, submoduleList >>

\* await submoduleGit.pull('origin', 'main'); a failure is logged likewise
Pull(p) ==
    /\ Running
    /\ rpc[p] = "pull"
    /\ Returns(p, "pull")
    /\ rdid' = [rdid EXCEPT ![p] = @ \cup {"pull"}]
    /\ \E ok \in BOOLEAN :
        /\ rpc' = [rpc EXCEPT ![p] = "done"]
        /\ rfail' = IF ok THEN rfail ELSE rfail \cup {p}
        /\ rok' = IF ok THEN [rok EXCEPT ![p] = @ \cup {"pull"}] ELSE rok
    /\ UNCHANGED << envVars, mainVars, tree, ahead, pc, outcome, did, calls, failedAt,
                    commits, localVars, submoduleList >>

refreshSettled_NoAwait(S) == TRUE

\* Promise.all over the refresh tasks, none of which rejects
refreshSettled(S) == \A p \in S : rpc[p] = "done"

\* await Promise.all(submoduleList.map(...)) resolves; git.status() is called
RefreshJoin ==
    /\ Running
    /\ pc[Root] = "refresh"
    /\ refreshSettled(submoduleList)
    /\ pc' = [pc EXCEPT ![Root] = "status"]
    /\ UNCHANGED << envVars, mainVars, tree, ahead, outcome, did, calls, failedAt,
                    commits, localVars, refreshVars >>

\* ------------------------------------------------------------- runs
\* How a task's run ended, as the next run sees it.
endOf(t) ==
    IF pc[t] = "idle" THEN None
    ELSE IF outcome[t] = "skipped" THEN "skipped"
    ELSE IF commits[t] > 0 THEN "committed"
    ELSE "failed"

\* The program is started again in the same working directory.
NewRun ==
    /\ mainPc = "exit"
    /\ run < MaxRuns
    /\ run' = run + 1
    /\ prev' = [t \in Tasks |-> endOf(t)]
    /\ mainPc' = "start"
    /\ exitCode' = None
    /\ submodules' = {}
    /\ pc' = [t \in Tasks |-> "idle"]
    /\ outcome' = [t \in Tasks |-> None]
    /\ did' = [t \in Tasks |-> {}]
    /\ calls' = [t \in Tasks |-> [o \in Ops |-> 0]]
    /\ failedAt' = [t \in Tasks |-> None]
    /\ commits' = [t \in Tasks |-> 0]
    /\ diff' = [t \in Tasks |-> NoDiff]
    /\ commitMessage' = [t \in Tasks |-> NoMessage]
    /\ genError' = [t \in Tasks |-> FALSE]
    /\ requestDiff' = [t \in Tasks |-> NoDiff]
    /\ submoduleList' = {}
    /\ rpc' = [p \in Names |-> "idle"]
    /\ rfail' = {}
    /\ rdid' = [p \in Names |-> {}]
    /\ rok' = [p \in Names |-> {}]
    /\ tree0' = tree
    /\ ahead0' = ahead
    /\ UNCHANGED << packagesExists, listingThrows, ws, tree, ahead, hang >>

\* ------------------------------------------------------------- specifications
Next ==
    \/ MainMissing
    \/ MainLaunch
    \/ MainJoin
    \/ MainFinish
    \/ \E t \in Tasks : Status(t)
    \/ \E t \in Tasks : Diff(t)
    \/ \E t \in Tasks : DiffSummary(t)
    \/ \E t \in Tasks : Add(t)
    \/ \E t \in Tasks : Generate(t)
    \/ \E t \in Tasks : Commit(t)
    \/ \E t \in Tasks : Push(t)
    \/ SubmoduleStatus
    \/ \E p \in Names : Checkout(p)
    \/ \E p \in Names : Pull(p)
    \/ RefreshJoin

Spec == Init /\ [][Next]_vars

NextRerun == Next \/ NewRun

SpecRerun == InitRerun /\ [][NextRerun]_vars

\* The positions of main, of the tasks and of the refresh tasks: every step
\* of the program moves one of them.
pcVars == << mainPc, pc, rpc >>

\* Directories under packages/ that are plain directories of the root.
SpecPlain == InitPlain /\ [][Next]_vars

\* Every call that is not hung returns, and the event loop runs whatever
\* continuation is ready.
SpecLive == InitLive /\ [][Next]_vars /\ WF_pcVars(Next)

\* One call never returns; everything else is scheduled as in SpecLive.
SpecHang == InitHang /\ [][Next]_vars /\ WF_pcVars(Next)

\* ------------------------------------------------------------- claims
Staging == {"add", "commit", "push"}
Terminal == {"succeeded", "skipped", "failed"}

\* C1: no operation of the root pipeline (submodule enumeration, refresh
\* checkout/pull, status, diff, stage, commit, push) starts before every
\* nested task has returned with a terminal outcome.
C1_RootAfterNested ==
    (pc[Root] # "idle" \/ did[Root] # {} \/ \E p \in Names : rpc[p] # "idle")
        => \A d \in ws.dirs : pc[d] = "done" /\ outcome[d] \in Terminal

C1_Witness ==
    /\ "push" \in did[Root]
    /\ rpc["b"] = "done"
    /\ outcome["a"] = "failed"
    /\ outcome["b"] = "succeeded"

\* C2: when the run has ended (packages/ exists and was listed), the exit
\* code is 0, the root repository was processed, and every nested
\* repository that was dirty and in which no call threw has been staged,
\* committed and pushed, whatever threw in the other repositories.
C2_Isolation ==
    (mainPc = "exit" /\ packagesExists /\ ~listingThrows) =>
        /\ exitCode = 0
        /\ pc[Root] = "done"
        /\ "submoduleStatus" \in did[Root]
        /\ \A d \in ws.dirs :
            (failedAt[d] = None /\ ~isClean(tree0[d])) =>
                /\ outcome[d] = "succeeded"
                /\ Staging \subseteq did[d]
                /\ commits[d] = 1
                /\ isClean(tree[d])

C2_Witness ==
    /\ mainPc = "exit"
    /\ exitCode = 0
    /\ failedAt["a"] = "commit"
    /\ outcome["b"] = "succeeded"
    /\ pc[Root] = "done"

\* C3: when packages/ does not exist, the run ends with exit code 1 and no
\* version-control call and no generation request is ever made.
C3_FatalPrecondition ==
    ~packagesExists =>
        /\ mainPc \in {"start", "exit"}
        /\ mainPc = "exit" => exitCode = 1
        /\ \A t \in Tasks : did[t] = {} /\ pc[t] = "idle"
        /\ \A p \in Names : rpc[p] = "idle"

C3_Witness == ~packagesExists /\ mainPc = "exit" /\ exitCode = 1

\* C4: when the generation call fails, the message handed to the commit is
\* the fallback literal, nothing is raised, and the pipeline goes on to
\* commit and push.
C4_FallbackDeterminism ==
    \A t \in Tasks :
        genError[t] =>
            /\ pc[t] \in {"commit", "push"}
            /\ commitMessage[t] = FallbackMessage

C4_Witness ==
    \E t \in Tasks : genError[t] /\ pc[t] = "push" /\ commits[t] = 1

\* C5: every message handed to the commit operation is a non-empty string.
C5_MessageNonEmpty ==
    \A t \in Tasks : pc[t] = "commit" => commitMessage[t] # <<>>

\* C6 (as claimed): a flow invoked again on the same repository, with no
\* change in between, does no stage, no commit and no push.
C6_SecondRunIdle ==
    \A t \in Tasks : prev[t] # None => did[t] \cap Staging = {}

\* C6 (amended): a flow invoked again on a repository that the previous
\* invocation found clean or committed does no stage, no commit and no push.
C6_SecondRunIdleAfterCleanOrCommit ==
    \A t \in Tasks :
        prev[t] \in {"skipped", "committed"} => did[t] \cap Staging = {}

C6_Witness ==
    /\ run = 2
    /\ prev["a"] = "committed"
    /\ outcome["a"] = "skipped"
    /\ prev[Root] = "committed"
    /\ outcome[Root] = "skipped"

\* C7: when the root's status (and so its diff) is queried, the checkout/pull
\* of every registered path has ended, with success or a logged failure.
C7_RefreshBeforeDetect ==
    (pc[Root] = "status" \/ "status" \in did[Root])
        => \A p \in ws.reg : rpc[p] = "done"

C7_Witness ==
    /\ "diff" \in did[Root]
    /\ rfail = {"b"}
    /\ rpc["c"] = "done"

\* C8: no failure inside the reference refresh (enumeration, checkout, pull)
\* aborts the root's flow: the root always goes on to query its status.
C8_RefreshNeverAborts ==
    pc[Root] = "done" => "status" \in did[Root]

\* C9: a commit failure does not escape the flow: no push is attempted, the
\* outcome is failed and the flow returns; push is attempted only after the
\* commit of that pipeline succeeded.
C9_CommitFailureContained ==
    \A t \in Tasks :
        /\ pc[t] # "rejected"
        /\ (pc[t] = "push" \/ "push" \in did[t]) => commits[t] = 1
        /\ failedAt[t] = "commit" =>
            /\ pc[t] = "done"
            /\ outcome[t] = "failed"
            /\ "push" \notin did[t]
            /\ commits[t] = 0

C9_Witness ==
    /\ failedAt["a"] = "commit"
    /\ "push" \in did["b"]
    /\ mainPc = "exit"
    /\ exitCode = 0

\* C10: the diff captured for a dirty repository covers every uncommitted
\* change of that repository at that moment, staged and unstaged.
C10_DiffCoversChanges ==
    \A t \in Tasks :
        pc[t] = "summary" => (tree[t].mod \cup tree[t].idx) \subseteq diff[t]

\* C11 (as claimed): a task that found its repository dirty has sent
\* exactly one generation request when it returns, a task that found it
\* clean none.
C11_OneRequestPerDirty ==
    \A t \in Tasks :
        pc[t] = "done" =>
            /\ outcome[t] = "skipped" => calls[t]["gen"] = 0
            /\ "diff" \in did[t] => calls[t]["gen"] = 1

\* C11 (amended): a task sends exactly one generation request once its diff,
\* summary and stage calls have returned, none before that and none for a
\* repository whose tree was clean; it never sends a second one.
C11_OneRequestPerStagedPipeline ==
    \A t \in Tasks :
        /\ calls[t]["gen"] =
             IF \/ pc[t] \in {"commit", "push"}
                \/ pc[t] = "done" /\ "add" \in did[t] /\ failedAt[t] # "add"
             THEN 1 ELSE 0
        /\ isClean(tree0[t]) => calls[t]["gen"] = 0
        /\ outcome[t] = "skipped" => calls[t]["gen"] = 0

C11_Witness ==
    /\ mainPc = "exit"
    /\ calls["a"]["gen"] = 1 /\ failedAt["a"] = "commit"
    /\ calls["b"]["gen"] = 0 /\ failedAt["b"] = "summary"
    /\ calls[Root]["gen"] = 0 /\ outcome[Root] = "skipped"

\* The run has ended with every launched task and the root returned.
Finished ==
    /\ mainPc = "exit"
    /\ exitCode = 0
    /\ \A t \in ws.dirs \cup {Root} : pc[t] = "done" /\ outcome[t] \in Terminal

\* C12 (as claimed): a run whose packages/ exists ends with every nested
\* repository and the root in a terminal outcome.
C12_EndsWithOutcomes ==
    (mainPc = "exit" /\ packagesExists) =>
        \A t \in ws.dirs \cup {Root} : outcome[t] \in Terminal

\* C12 (amended): when every call returns, a run whose packages/ exists and
\* is listed without error eventually ends with exit code 0 and every nested
\* repository and the root in a terminal outcome, whatever failed.
C12_Terminates == (packagesExists /\ ~listingThrows) ~> Finished

C12_Witness ==
    /\ Finished
    /\ outcome["a"] = "failed"
    /\ outcome["b"] = "failed"
    /\ outcome[Root] = "succeeded"

\* C13: the calls of one pipeline are made in the order status, diff,
\* summary, add, generate, commit, push, each after the one before it has
\* returned; the generator gets the diff of the tree before staging, and the
\* commit is made with the message the generator returned.
C13_StepsInOrder ==
    \A t \in Tasks :
        LET d == did[t] \ {"submoduleStatus"} IN
        /\ \A o \in Ops : calls[t][o] <= 1
        /\ pc[t] \in {"idle", "submoduleStatus", "refresh", "status"} => d = {}
        /\ pc[t] = "diff" => d = {"status"}
        /\ pc[t] = "summary" => d = {"status", "diff"}
        /\ pc[t] = "add" => d = {"status", "diff", "summary"}
        /\ pc[t] = "gen" =>
            /\ d = {"status", "diff", "summary", "add"}
            /\ diff[t] = diffOf(tree0[t])
            /\ commitMessage[t] = NoMessage
        /\ pc[t] = "commit" =>
            /\ d = {"status", "diff", "summary", "add", "gen"}
            /\ requestDiff[t] = diffOf(tree0[t])
            /\ commitMessage[t] # NoMessage
            /\ commits[t] = 0
        /\ pc[t] = "push" =>
            /\ d = {"status", "diff", "summary", "add", "gen", "commit"}
            /\ requestDiff[t] = diffOf(tree0[t])

C13_Witness ==
    /\ pc["a"] = "push"
    /\ requestDiff["a"] = {"f"}
    /\ tree0["a"].idx = {"g"}
    /\ pc["b"] = "commit"

\* Version-control calls pending against repository r.
InFlight(r) ==
    { <<"task", t>> : t \in { u \in Tasks :
          /\ repoOf(u) = r
          /\ pc[u] \in {"submoduleStatus", "status", "diff", "summary",
                        "add", "commit", "push"} } }
    \cup { <<"refresh", p>> : p \in { q \in Names :
          q = r /\ rpc[q] \in {"checkout", "pull"} } }

\* C14: at most one version-control call is pending against any repository.
C14_OneOperationPerRepository ==
    \A r \in Tasks : Cardinality(InFlight(r)) <= 1

\* C15: a task that finds its repository clean returns skipped after the
\* status call alone: no diff, stage, generation request, commit or push, and
\* the tree, index and history of the repository are as they were.
C15_CleanIsSkipped ==
    \A t \in Tasks :
        (isClean(tree0[t]) /\ "status" \in did[t] /\ failedAt[t] # "status") =>
            /\ pc[t] = "done"
            /\ outcome[t] = "skipped"
            /\ did[t] \subseteq {"submoduleStatus", "status"}
            /\ calls[t]["gen"] = 0
            /\ commits[t] = 0
            /\ tree[t] = tree0[t]
            /\ ahead[t] = ahead0[t]

C15_Witness ==
    /\ outcome["a"] = "skipped"
    /\ outcome[Root] = "skipped"
    /\ outcome["b"] = "succeeded"

\* C16: every registered path gets a checkout, and a pull exactly when its
\* checkout returned; a failure on one path leaves the other paths' checkout
\* and pull in place, and the nested repository's own changes play no part.
C16_RefreshEveryPath ==
    /\ \A p \in Names :
        /\ rpc[p] # "idle" => p \in ws.reg
        /\ "pull" \in rdid[p] => "checkout" \in rok[p]
        /\ rpc[p] = "pull" => "checkout" \in rok[p]
        /\ rpc[p] = "done" =>
            /\ "checkout" \in rdid[p]
            /\ "checkout" \in rok[p] <=> "pull" \in rdid[p]
    /\ (pc[Root] = "status" \/ "status" \in did[Root]) =>
            \A p \in ws.reg : rpc[p] = "done"

C16_Witness ==
    /\ pc[Root] = "status"
    /\ rdid["b"] = {"checkout"} /\ rok["b"] = {}
    /\ rok["c"] = {"checkout", "pull"}
    /\ ~isClean(tree["b"])

\* C17: after a failed push the commit stays in the local repository,
\* unpushed; the task's outcome is failed, the push was tried once, and the
\* run goes on to end with exit code 0.
C17_PushFailureLeavesCommit ==
    \A t \in Tasks :
        /\ calls[t]["push"] <= 1
        /\ failedAt[t] = "push" =>
            /\ pc[t] = "done"
            /\ outcome[t] = "failed"
            /\ commits[t] = 1
            /\ ahead[t] >= 1
            /\ isClean(tree[t])
            /\ mainPc = "exit" => exitCode = 0

C17_Witness ==
    /\ failedAt["a"] = "push"
    /\ outcome["b"] = "succeeded"
    /\ outcome[Root] = "succeeded"
    /\ mainPc = "exit"
    /\ exitCode = 0

\* C18 (as claimed): when a call hangs and nothing else can run, every
\* repository other than the hung task's, the root included, has reached a
\* terminal outcome.
C18_OthersAllEnd ==
    (HungPending /\ ~ENABLED Next) =>
        \A t \in (ws.dirs \cup {Root}) \ {hang.task} : outcome[t] \in Terminal

\* C18 (amended): when a call hangs, every other nested task still reaches
\* a terminal outcome.
C18_OtherNestedEnd ==
    \A t \in Names :
        (pc[t] # "idle" /\ hang.task # t) ~> (pc[t] = "done" /\ outcome[t] \in Terminal)

C18_Witness ==
    /\ HungPending
    /\ hang.task = "a"
    /\ outcome["b"] = "succeeded"
    /\ pc[Root] = "idle"
    /\ ~ENABLED Next

\* C19: push is made only by a pipeline that found its tree dirty; a
\* repository that starts a run clean with unpushed commits ends it with the
\* same unpushed commits.
C19_UnpushedStaysUnpushed ==
    \A t \in Tasks :
        /\ (pc[t] = "push" \/ "push" \in did[t]) =>
                ~isClean(tree0[t]) /\ "status" \in did[t]
        /\ (isClean(tree0[t]) /\ ahead0[t] >= 1) =>
                ahead[t] = ahead0[t] /\ "push" \notin did[t]

C19_Witness ==
    /\ run = 2
    /\ mainPc = "exit"
    /\ prev["a"] = "committed"
    /\ ahead0["a"] = 1
    /\ outcome["a"] = "skipped"
    /\ ahead["a"] = 1

====
